---- MODULE Spec2Model ----
(***************************************************************************)
(* Model of the random-walk Metropolis experiment code:                    *)
(*   - MCMCSimulation (src/interfaces/simulation.py): construction,        *)
(*     reset, has_run, generate_samples, acceptance_rate and               *)
(*     expected_squared_jump_distance, over the process-wide numpy         *)
(*     generator that the constructor seeds;                               *)
(*   - run_study and get_target_distribution                               *)
(*     (src/experiment_RWM_GPU.py): the sweep over the scale grid.         *)
(* MHAlgorithm (interfaces/metropolis.py) is not part of the sources; its  *)
(* step() and reset() are modelled from the specification, section 4.3.    *)
(***************************************************************************)
EXTENDS Integers, Sequences, FiniteSets, TLC

\* ------------------------------------------------------------------ bounds
MaxIter == 3       \* largest num_iterations argument tried
MaxDim == 2        \* largest dim argument tried
MaxSeed == 2       \* largest integer seed tried
MaxRuns == 2       \* completed runs of generate_samples per instance
RngMod == 8        \* number of states of the modelled generator
GridSize == 2      \* points of scale_param_range tried (40 in run_study)
MaxEsjd == 2       \* largest ESJD value a sweep simulation reports
MaxAcc == 1        \* largest acceptance count a sweep simulation reports
MaxParam == 2      \* largest n1, n2, J, K tried

Inst == {1, 2}                       \* simulation instances of the process
IterArgs == (-1)..MaxIter            \* num_iterations: int, not validated
BurnArgs == (-1)..(MaxIter + 1)      \* burn_in: int
SeedArgs == {<<>>} \cup {<<k>> : k \in 0..MaxSeed}   \* <<>> is None

VARIABLES
    rng,             \* state of the process-wide generator np.random
    alive,           \* alive[s]: instance s has been constructed
    dim,             \* algorithm.dim
    num_iterations,  \* self.num_iterations
    burn_in,         \* self.burn_in (stored, clamped)
    burn_in_arg,     \* the burn_in argument the constructor received
    seed,            \* the seed argument the constructor received
    chain,           \* self.algorithm.chain
    num_acceptances, \* accepted_count of the algorithm
    pc,              \* "idle", or "running" inside generate_samples
    i,               \* loop index of generate_samples
    steps,           \* step() calls made by the current / latest generate_samples
    returned,        \* generate_samples returned since construction / last reset
    runs,            \* number of generate_samples calls that returned
    first_chain,     \* the chain the first completed run returned
    aborted,         \* some generate_samples call was left by an exception
    ret              \* outcome of the latest call on a simulation

VARIABLES
    st_pc,             \* position of run_study
    target_name,       \* run_study arguments
    proposal_name,
    st_dim,
    num_iters,
    kw,                \* keyword arguments n1, n2, J, K
    actual_dim,
    target_distribution,
    grid_i,            \* index into scale_param_range
    acceptance_rates,  \* the three series of the sweep
    expected_squared_jump_distances,
    times,
    sims_constructed,  \* MCMCSimulation_GPU instances constructed so far
    sim_steps,         \* step() calls made by them
    sim_dims,          \* the dim arguments they were constructed with
    data,              \* the result record
    file_opened,       \* the JSON file was opened for writing
    plots_saved,       \* plt.savefig calls
    st_error           \* the exception run_study was left with

VARIABLES
    torch_rng,         \* state of torch's process-wide generator
    builds             \* the SuperFunnel constructions made, in order

VARIABLES
    grid_pc,           \* position in the density-grid evaluation of run_study
    cell_i, cell_j,    \* loop indices i, j of the grid evaluation
    Z                  \* the density grid

VARIABLES
    gt_args,           \* arguments of a get_target_distribution call
    gt_result          \* what the call returned or raised

funnelVars == <<torch_rng, builds>>
gridVars == <<grid_pc, cell_i, cell_j, Z>>
targetVars == <<gt_args, gt_result>>

\* state of the parts of experiment_RWM_GPU.py that are followed on their own
toolVars == <<funnelVars, gridVars, targetVars>>

studyVars == <<st_pc, target_name, proposal_name, st_dim, num_iters, kw,
               actual_dim, target_distribution, grid_i, acceptance_rates,
               expected_squared_jump_distances, times, sims_constructed,
               sim_steps, sim_dims, data, file_opened, plots_saved, st_error>>

simVars == <<rng, alive, dim, num_iterations, burn_in, burn_in_arg, seed, chain,
             num_acceptances, pc, i, steps, returned, runs, first_chain, aborted,
             ret>>

\* ------------------------------------------------------------ arithmetic
Min(a, b) == IF a <= b THEN a ELSE b
Max(a, b) == IF a >= b THEN a ELSE b

RECURSIVE SumSeq(_)
SumSeq(q) == IF q = <<>> THEN 0 ELSE Head(q) + SumSeq(Tail(q))

\* ------------------------------------------------- the process-wide generator
\* One draw advances the generator deterministically.
NextRng(r) == (5 * r + 3) % RngMod

RECURSIVE Advance(_, _)
Advance(r, k) == IF k = 0 THEN r ELSE Advance(NextRng(r), k - 1)

\* np.random.seed(seed): the state is a function of the seed alone.
SeedState(k) == k % RngMod

\* `if seed:` is false for None and for 0.
SeedTruthy(sd) == sd # <<>> /\ sd[1] # 0

\* --------------------------------------------------- MHAlgorithm (section 4.3)
InitialState(d) == [k \in 1..d |-> 0]

\* Symmetric displacement of one coordinate, read off one draw.
Displacement(r) == (r % 3) - 1

Proposal(x, r) == [k \in 1..Len(x) |-> x[k] + Displacement(Advance(r, k - 1))]

\* Isotropic Gaussian target, up to a constant: -|p|^2.
LogDensity(p) == 0 - SumSeq([k \in 1..Len(p) |-> p[k] * p[k]])

\* log(u) of the uniform draw, on a grid 0, -1, -2, -3.
LogU(r) == 0 - (r % 4)

Accepts(x, y, r) == LogU(r) <= Min(0, LogDensity(y) - LogDensity(x))

\* step(): the state appended and whether the candidate was accepted.
StepAccepted(c, r) ==
    LET x == c[Len(c)]
        y == Proposal(x, r)
    IN  Accepts(x, y, Advance(r, Len(x)))

StepChain(c, r) ==
    LET x == c[Len(c)]
        y == Proposal(x, r)
    IN  Append(c, IF StepAccepted(c, r) THEN y ELSE x)

StepRng(c, r) == Advance(r, Len(c[Len(c)]) + 1)

\* ------------------------------------------------------------ MCMCSimulation
\* self.burn_in = max(0, min(burn_in, num_iterations - 1))
ClampBurnInOffByOne(b, n) == Max(0, Min(b, n))
ClampBurnIn(b, n) == Max(0, Min(b, n - 1))

\* has_run(): len(self.algorithm.chain) > 1
has_run(c) == Len(c) > 1

\* RunState Completed: generate_samples has returned and no reset() followed.
Completed(s) == alive[s] /\ returned[s]

Init ==
    /\ rng \in 0..(RngMod - 1)
    /\ alive = [s \in Inst |-> FALSE]
    /\ dim = [s \in Inst |-> 1]
    /\ num_iterations = [s \in Inst |-> 0]
    /\ burn_in = [s \in Inst |-> 0]
    /\ burn_in_arg = [s \in Inst |-> 0]
    /\ seed = [s \in Inst |-> <<>>]
    /\ chain = [s \in Inst |-> <<>>]
    /\ num_acceptances = [s \in Inst |-> 0]
    /\ pc = [s \in Inst |-> "idle"]
    /\ i = [s \in Inst |-> 0]
    /\ steps = [s \in Inst |-> 0]
    /\ returned = [s \in Inst |-> FALSE]
    /\ runs = [s \in Inst |-> 0]
    /\ first_chain = [s \in Inst |-> <<>>]
    /\ aborted = [s \in Inst |-> FALSE]
    /\ ret = [inst |-> 0, op |-> "none", kind |-> "none", val |-> <<>>]
    /\ st_pc = "idle"
    /\ target_name = "" /\ proposal_name = ""
    /\ st_dim = 0 /\ num_iters = 0
    /\ kw = [n1 |-> 3, n2 |-> 5, J |-> 5, K |-> 3]
    /\ actual_dim = 0
    /\ target_distribution = "None"
    /\ grid_i = 0
    /\ acceptance_rates = <<>>
    /\ expected_squared_jump_distances = <<>>
    /\ times = <<>>
    /\ sims_constructed = 0 /\ sim_steps = 0
    /\ sim_dims = {}
    /\ data = <<>>
    /\ file_opened = FALSE
    /\ plots_saved = 0
    /\ st_error = "none"
    /\ torch_rng = 0
    /\ builds = <<>>
    /\ grid_pc = "idle" /\ cell_i = 0 /\ cell_j = 0
    /\ Z = <<>>
    /\ gt_args = <<>>
    /\ gt_result = <<>>

\* MCMCSimulation.__init__(dim = d, num_iterations = n, burn_in = b, seed = sd)
ConstructWith(s, d, n, b, sd) ==
    /\ ~alive[s]
    /\ alive' = [alive EXCEPT ![s] = TRUE]
    /\ dim' = [dim EXCEPT ![s] = d]
    /\ num_iterations' = [num_iterations EXCEPT ![s] = n]
    /\ burn_in' = [burn_in EXCEPT ![s] = ClampBurnIn(b, n)]
    /\ burn_in_arg' = [burn_in_arg EXCEPT ![s] = b]
    /\ seed' = [seed EXCEPT ![s] = sd]
    /\ chain' = [chain EXCEPT ![s] = <<InitialState(d)>>]
    /\ num_acceptances' = [num_acceptances EXCEPT ![s] = 0]
    /\ rng' = IF SeedTruthy(sd) THEN SeedState(sd[1]) ELSE rng
    /\ ret' = [inst |-> s, op |-> "init", kind |-> "ok", val |-> <<>>]
    /\ UNCHANGED <<pc, i, steps, returned, runs, first_chain, aborted>>
    /\ UNCHANGED <<studyVars, toolVars>>

Construct(s) ==
    \E d \in 1..MaxDim, n \in IterArgs, b \in BurnArgs, sd \in SeedArgs :
        ConstructWith(s, d, n, b, sd)

\* reset(): self.algorithm.reset() -- back to the initial state, chain and
\* diagnostics cleared (section 3, RunState).
Reset(s) ==
    /\ alive[s] /\ pc[s] = "idle"
    /\ chain' = [chain EXCEPT ![s] = <<InitialState(dim[s])>>]
    /\ num_acceptances' = [num_acceptances EXCEPT ![s] = 0]
    /\ returned' = [returned EXCEPT ![s] = FALSE]
    /\ ret' = [inst |-> s, op |-> "reset", kind |-> "ok", val |-> <<>>]
    /\ UNCHANGED <<rng, alive, dim, num_iterations, burn_in, burn_in_arg, seed,
                   pc, i, steps, runs, first_chain, aborted>>
    /\ UNCHANGED <<studyVars, toolVars>>

\* generate_samples(), entry: the has_run() guard, then the loop starts.
GenerateSamples(s) ==
    /\ alive[s] /\ pc[s] = "idle" /\ runs[s] < MaxRuns
    /\ IF has_run(chain[s])
       THEN /\ ret' = [inst |-> s, op |-> "generate_samples",
                       kind |-> "ValueError", val |-> <<>>]
            /\ UNCHANGED <<pc, i, steps>>
       ELSE /\ pc' = [pc EXCEPT ![s] = "running"]
            /\ i' = [i EXCEPT ![s] = 0]
            /\ steps' = [steps EXCEPT ![s] = 0]
            /\ ret' = [inst |-> s, op |-> "generate_samples",
                       kind |-> "entered", val |-> <<>>]
    /\ UNCHANGED <<rng, alive, dim, num_iterations, burn_in, burn_in_arg, seed,
                   chain, num_acceptances, returned, runs, first_chain, aborted>>
    /\ UNCHANGED <<studyVars, toolVars>>

\* One pass of `for i in range(self.num_iterations): self.algorithm.step()`.
Step(s) ==
    /\ pc[s] = "running" /\ i[s] < num_iterations[s]
    /\ chain' = [chain EXCEPT ![s] = StepChain(chain[s], rng)]
    /\ num_acceptances' = [num_acceptances EXCEPT ![s] =
                             @ + (IF StepAccepted(chain[s], rng) THEN 1 ELSE 0)]
    /\ rng' = StepRng(chain[s], rng)
    /\ i' = [i EXCEPT ![s] = @ + 1]
    /\ steps' = [steps EXCEPT ![s] = @ + 1]
    /\ UNCHANGED <<alive, dim, num_iterations, burn_in, burn_in_arg, seed, pc,
                   returned, runs, first_chain, aborted, ret>>
    /\ UNCHANGED <<studyVars, toolVars>>

\* An exception raised inside step() (or an interrupt) leaves generate_samples
\* through the loop: nothing catches it, the chain keeps what was appended.
StepRaises(s) ==
    /\ pc[s] = "running" /\ i[s] < num_iterations[s]
    /\ pc' = [pc EXCEPT ![s] = "idle"]
    /\ aborted' = [aborted EXCEPT ![s] = TRUE]
    /\ ret' = [inst |-> s, op |-> "generate_samples", kind |-> "Exception",
               val |-> <<>>]
    /\ UNCHANGED <<rng, alive, dim, num_iterations, burn_in, burn_in_arg, seed,
                   chain, num_acceptances, i, steps, returned, runs, first_chain>>
    /\ UNCHANGED <<studyVars, toolVars>>

\* The loop is exhausted: `return self.algorithm.chain`.
GenReturn(s) ==
    /\ pc[s] = "running" /\ ~(i[s] < num_iterations[s])
    /\ pc' = [pc EXCEPT ![s] = "idle"]
    /\ returned' = [returned EXCEPT ![s] = TRUE]
    /\ runs' = [runs EXCEPT ![s] = @ + 1]
    /\ first_chain' = [first_chain EXCEPT ![s] =
                         IF runs[s] = 0 THEN chain[s] ELSE @]
    /\ ret' = [inst |-> s, op |-> "generate_samples", kind |-> "value",
               val |-> chain[s]]
    /\ UNCHANGED <<rng, alive, dim, num_iterations, burn_in, burn_in_arg, seed,
                   chain, num_acceptances, i, steps, aborted>>
    /\ UNCHANGED <<studyVars, toolVars>>

\* acceptance_rate()
AcceptanceRate(s) ==
    /\ alive[s] /\ pc[s] = "idle"
    /\ ret' = IF ~has_run(chain[s])
              THEN [inst |-> s, op |-> "acceptance_rate", kind |-> "ValueError",
                    val |-> <<>>]
              ELSE [inst |-> s, op |-> "acceptance_rate", kind |-> "value",
                    val |-> [num |-> num_acceptances[s],
                             den |-> num_iterations[s]]]
    /\ UNCHANGED <<rng, alive, dim, num_iterations, burn_in, burn_in_arg, seed,
                   chain, num_acceptances, pc, i, steps, returned, runs,
                   first_chain, aborted>>
    /\ UNCHANGED <<studyVars, toolVars>>

\* np.sum((a - b) ** 2) over the coordinates of two states
SquaredDistance(a, b) ==
    SumSeq([k \in 1..Len(a) |-> (a[k] - b[k]) * (a[k] - b[k])])

\* np.sum((c[1:] - c[:-1]) ** 2, axis=1)
SquaredJumps(c) == [k \in 1..(Len(c) - 1) |-> SquaredDistance(c[k + 1], c[k])]

\* np.mean, kept exact as a fraction
Mean(q) == [num |-> SumSeq(q), den |-> Len(q)]

\* chain[b:] of a Python list, for 0 <= b
Suffix(c, b) == SubSeq(c, b + 1, Len(c))

\* the body of expected_squared_jump_distance() past the has_run() guard
ESJDSkipsBurnInState(c, b) ==
    IF b > 0 /\ Len(c) > b + 1
    THEN IF Len(c) > b + 2 THEN Mean(SquaredJumps(Suffix(c, b + 1)))
                           ELSE [num |-> 0, den |-> 1]
    ELSE IF b = 0 THEN Mean(SquaredJumps(c))
    ELSE [num |-> 0, den |-> 1]
ESJDGuardOffByOne(c, b) ==
    IF b > 0 /\ Len(c) > b + 2 THEN Mean(SquaredJumps(Suffix(c, b)))
    ELSE IF b = 0 THEN Mean(SquaredJumps(c))
    ELSE [num |-> 0, den |-> 1]
ESJD(c, b) ==
    IF b > 0 /\ Len(c) > b + 1 THEN Mean(SquaredJumps(Suffix(c, b)))
    ELSE IF b = 0 THEN Mean(SquaredJumps(c))
    ELSE [num |-> 0, den |-> 1]

\* expected_squared_jump_distance()
ExpectedSquaredJumpDistance(s) ==
    /\ alive[s] /\ pc[s] = "idle"
    /\ ret' = IF ~has_run(chain[s])
              THEN [inst |-> s, op |-> "expected_squared_jump_distance",
                    kind |-> "ValueError", val |-> <<>>]
              ELSE [inst |-> s, op |-> "expected_squared_jump_distance",
                    kind |-> "value", val |-> ESJD(chain[s], burn_in[s])]
    /\ UNCHANGED <<rng, alive, dim, num_iterations, burn_in, burn_in_arg, seed,
                   chain, num_acceptances, pc, i, steps, returned, runs,
                   first_chain, aborted>>
    /\ UNCHANGED <<studyVars, toolVars>>

\* traceplot(): past the has_run() guard the chain is copied by np.array and
\* the copy's columns are plotted.
traceplot(s) ==
    /\ alive[s] /\ pc[s] = "idle"
    /\ ret' = IF ~has_run(chain[s])
              THEN [inst |-> s, op |-> "traceplot", kind |-> "ValueError",
                    val |-> <<>>]
              ELSE [inst |-> s, op |-> "traceplot", kind |-> "plotted",
                    val |-> chain[s]]
    /\ UNCHANGED <<rng, alive, dim, num_iterations, burn_in, burn_in_arg, seed,
                   chain, num_acceptances, pc, i, steps, returned, runs,
                   first_chain, aborted>>
    /\ UNCHANGED <<studyVars, toolVars>>

\* samples_histogram(axis=0): no guard; the first column of a copy is binned.
samples_histogram(s) ==
    /\ alive[s] /\ pc[s] = "idle"
    /\ ret' = [inst |-> s, op |-> "samples_histogram", kind |-> "plotted",
               val |-> [k \in 1..Len(chain[s]) |-> chain[s][k][1]]]
    /\ UNCHANGED <<rng, alive, dim, num_iterations, burn_in, burn_in_arg, seed,
                   chain, num_acceptances, pc, i, steps, returned, runs,
                   first_chain, aborted>>
    /\ UNCHANGED <<studyVars, toolVars>>

\* a rendering that drops the burn-in states from the list itself
ChainCutInPlace(c, b) == IF Len(c) > b THEN Suffix(c, b) ELSE c
\* the simulation's chain after the rendering of run_study: chain_data is a
\* copy, and the burn-in slice rebinds the local name only
ChainAfterRender(c, b) == c

\* chain_data of run_study: the copy, without its first burn_in states
ChainData(c, b) == IF Len(c) > b THEN Suffix(c, b) ELSE c

\* The traceplot / density rendering of run_study on the simulation it ran.
RenderChain(s) ==
    /\ alive[s] /\ pc[s] = "idle" /\ returned[s]
    /\ chain' = [chain EXCEPT ![s] = ChainAfterRender(chain[s], burn_in[s])]
    /\ ret' = [inst |-> s, op |-> "render", kind |-> "plotted",
               val |-> ChainData(chain[s], burn_in[s])]
    /\ UNCHANGED <<rng, alive, dim, num_iterations, burn_in, burn_in_arg, seed,
                   num_acceptances, pc, i, steps, returned, runs, first_chain,
                   aborted>>
    /\ UNCHANGED <<studyVars, toolVars>>

\* One simulation instance through its whole life.
Next ==
    \E s \in {1} :
        \/ Construct(s)
        \/ Reset(s)
        \/ GenerateSamples(s)
        \/ Step(s)
        \/ StepRaises(s)
        \/ GenReturn(s)
        \/ AcceptanceRate(s)
        \/ ExpectedSquaredJumpDistance(s)

\* One simulation run and handed to the read-only consumers of its chain.
NextConsume ==
    \E s \in {1} :
        \/ Construct(s)
        \/ GenerateSamples(s)
        \/ Step(s)
        \/ GenReturn(s)
        \/ AcceptanceRate(s)
        \/ ExpectedSquaredJumpDistance(s)
        \/ traceplot(s)
        \/ samples_histogram(s)
        \/ RenderChain(s)

\* Other code of the process draws from np.random.
EnvDraw ==
    /\ rng' = NextRng(rng)
    /\ UNCHANGED <<alive, dim, num_iterations, burn_in, burn_in_arg, seed, chain,
                   num_acceptances, pc, i, steps, returned, runs, first_chain,
                   aborted, ret>>
    /\ UNCHANGED <<studyVars, toolVars>>

\* Two instances used one after the other, as the sweep of run_study does:
\* the second is constructed with the arguments of the first once the first
\* has been run, and other draws happen only between the two.
NextSeq ==
    \/ Construct(1)
    \/ /\ Completed(1)
       /\ ConstructWith(2, dim[1], num_iterations[1], burn_in_arg[1], seed[1])
    \/ /\ Completed(1) /\ ~alive[2]
       /\ EnvDraw
    \/ \E s \in Inst :
        \/ GenerateSamples(s)
        \/ Step(s)
        \/ GenReturn(s)

\* Two instances in one thread: B is constructed, with any num_iterations and
\* seed, at any time after A, and each generate_samples() call runs while the
\* other instance is outside its own.
NextPair ==
    \/ Construct(1)
    \/ /\ alive[1] /\ pc[1] = "idle"
       /\ \E n \in IterArgs, sd \in SeedArgs :
            ConstructWith(2, dim[1], n, burn_in_arg[1], sd)
    \/ \E s \in Inst :
        \/ /\ \A t \in Inst \ {s} : pc[t] = "idle"
           /\ GenerateSamples(s)
        \/ Step(s)
        \/ GenReturn(s)

vars == <<simVars, studyVars, toolVars>>

Spec == Init /\ [][Next]_vars

SpecSeq == Init /\ [][NextSeq]_vars
SpecPair == Init /\ [][NextPair]_vars

\* ------------------------------------------------ experiment_RWM_GPU.py
TorchTargets ==
    {"MultivariateNormal", "MultivariateNormalScaled", "RoughCarpet",
     "RoughCarpetScaled", "ThreeMixture", "ThreeMixtureScaled", "Hypercube",
     "IIDGamma", "IIDBeta", "FullRosenbrock", "EvenRosenbrock",
     "HybridRosenbrock", "NealFunnel", "SuperFunnel"}
CpuTargets ==
    {"MultivariateNormal", "RoughCarpet", "RoughCarpetScaled", "ThreeMixture",
     "ThreeMixtureScaled", "Hypercube", "IIDGamma", "IIDBeta"}
TorchOnlyTargets ==
    {"FullRosenbrock", "EvenRosenbrock", "HybridRosenbrock", "NealFunnel",
     "SuperFunnel"}
\* names run_study may be given: the known ones, its own default and another
TargetNames == TorchTargets \cup {"MultivariateNormalTorch", "Cauchy"}

UnknownTarget == "ValueError: Unknown target distribution name"
TorchOnly == "ValueError: only available with PyTorch"

\* get_target_distribution(name, dim, use_torch): the class constructed, or
\* the error raised
get_target_distribution(name, use_torch) ==
    IF use_torch
    THEN IF name \in TorchTargets
         THEN [ok |-> TRUE, val |-> name \o "Torch"]
         ELSE [ok |-> FALSE, val |-> UnknownTarget]
    ELSE IF name \in CpuTargets THEN [ok |-> TRUE, val |-> name]
         ELSE IF name \in TorchOnlyTargets THEN [ok |-> FALSE, val |-> TorchOnly]
         ELSE [ok |-> FALSE, val |-> UnknownTarget]

ProposalNames == {"Normal", "Laplace", "UniformRadius", "Cauchy"}

\* the if / elif chain on proposal_name inside the sweep loop
ProposalKnownAny(name) == TRUE
ProposalKnown(name) == name \in {"Normal", "Laplace", "UniformRadius"}

calculate_hybrid_rosenbrock_dim(n1, n2) == 1 + n2 * (n1 - 1)
calculate_super_funnel_dim(J, K) == J + J * K + 1 + K + 1 + 1

\* run_study without lines 177-199: the dim argument for every family
ActualDimFromArgument(name, d, k) == d

\* the dimension run_study passes to every simulation
ActualDim(name, d, k) ==
    IF name = "HybridRosenbrock" THEN calculate_hybrid_rosenbrock_dim(k.n1, k.n2)
    ELSE IF name = "SuperFunnel" THEN calculate_super_funnel_dim(k.J, k.K)
    ELSE d

\* num_iters values the sweep is tried with
StudyIters == {1, 2}

DefaultKw == [n1 |-> 3, n2 |-> 5, J |-> 5, K |-> 3]
KwArgs(name) ==
    IF name = "HybridRosenbrock"
    THEN {[DefaultKw EXCEPT !.n1 = a, !.n2 = b] : a, b \in 1..MaxParam}
             \cup {DefaultKw}
    ELSE IF name = "SuperFunnel"
    THEN {[DefaultKw EXCEPT !.J = a, !.K = b] : a, b \in 1..MaxParam}
             \cup {DefaultKw}
    ELSE {DefaultKw}

\* run_study, from its entry to the start of the sweep loop: the dimension,
\* then get_target_distribution, which may raise.
RunStudy ==
    /\ st_pc = "idle"
    /\ \E tn \in TargetNames, pn \in ProposalNames, d \in 1..MaxDim,
          n \in StudyIters :
        \E k \in KwArgs(tn) :
          LET got == get_target_distribution(tn, TRUE) IN
            /\ target_name' = tn /\ proposal_name' = pn
            /\ st_dim' = d /\ num_iters' = n /\ kw' = k
            /\ actual_dim' = ActualDim(tn, d, k)
            /\ IF got.ok
               THEN /\ target_distribution' = got.val
                    /\ st_pc' = "sweep"
                    /\ st_error' = st_error
               ELSE /\ target_distribution' = target_distribution
                    /\ st_pc' = "raised"
                    /\ st_error' = got.val
    /\ UNCHANGED <<grid_i, acceptance_rates, expected_squared_jump_distances,
                   times, sims_constructed, sim_steps, data, file_opened,
                   plots_saved>>
    /\ UNCHANGED sim_dims
    /\ UNCHANGED <<simVars, toolVars>>

\* Head of a sweep iteration: the proposal configuration, or ValueError.
SweepConfig ==
    /\ st_pc = "sweep" /\ grid_i < GridSize
    /\ IF ProposalKnown(proposal_name)
       THEN st_pc' = "simulate" /\ st_error' = st_error
       ELSE st_pc' = "raised" /\ st_error' = "ValueError: Unknown proposal name"
    /\ UNCHANGED <<target_name, proposal_name, st_dim, num_iters, kw, actual_dim,
                   target_distribution, grid_i, acceptance_rates,
                   expected_squared_jump_distances, times, sims_constructed,
                   sim_steps, data, file_opened, plots_saved>>
    /\ UNCHANGED sim_dims
    /\ UNCHANGED <<simVars, toolVars>>

\* an iteration that records its time and never queries the diagnostics
SweepSimulateUnqueried ==
    /\ st_pc = "simulate"
    /\ times' = Append(times, grid_i)
    /\ sims_constructed' = sims_constructed + 1
    /\ sim_dims' = sim_dims \cup {actual_dim}
    /\ sim_steps' = sim_steps + num_iters
    /\ grid_i' = grid_i + 1
    /\ st_pc' = "sweep"
    /\ UNCHANGED <<target_name, proposal_name, st_dim, num_iters, kw, actual_dim,
                   target_distribution, acceptance_rates,
                   expected_squared_jump_distances, data, file_opened,
                   plots_saved, st_error>>
    /\ UNCHANGED <<simVars, toolVars>>

\* Rest of the iteration: the simulation is constructed, run to completion
\* and asked for its two diagnostics, which are appended to the series.
SweepSimulate ==
    /\ st_pc = "simulate"
    /\ \E a \in 0..MaxAcc, e \in 0..MaxEsjd :
        /\ acceptance_rates' = Append(acceptance_rates, a)
        /\ expected_squared_jump_distances' =
               Append(expected_squared_jump_distances, e)
    /\ times' = Append(times, grid_i)
    /\ sims_constructed' = sims_constructed + 1
    /\ sim_dims' = sim_dims \cup {actual_dim}
    /\ sim_steps' = sim_steps + num_iters
    /\ grid_i' = grid_i + 1
    /\ st_pc' = "sweep"
    /\ UNCHANGED <<target_name, proposal_name, st_dim, num_iters, kw, actual_dim,
                   target_distribution, data, file_opened, plots_saved, st_error>>
    /\ UNCHANGED <<simVars, toolVars>>

\* np.linspace(0.01, var_max, 40): the grid, increasing, one value per index
ScaleParamRange == [k \in 1..GridSize |-> k]

\* max(...) of a non-empty series and np.argmax, the first index attaining it
SeqMax(q) == CHOOSE m \in {q[k] : k \in 1..Len(q)} :
                 \A k \in 1..Len(q) : q[k] <= m
\* an argmax that keeps the last index attaining the maximum
ArgMaxLast(q) == CHOOSE k \in 1..Len(q) :
                     /\ q[k] = SeqMax(q)
                     /\ \A j \in (k + 1)..Len(q) : q[j] < SeqMax(q)
ArgMax(q) == CHOOSE k \in 1..Len(q) :
                 /\ q[k] = SeqMax(q)
                 /\ \A j \in 1..(k - 1) : q[j] < SeqMax(q)

\* After the loop: the maxima and the result record.
SweepDone ==
    /\ st_pc = "sweep" /\ ~(grid_i < GridSize)
    /\ LET idx == ArgMax(expected_squared_jump_distances) IN
        data' = [target_distribution |-> target_name,
                 proposal_distribution |-> proposal_name,
                 dimension |-> actual_dim,
                 num_iterations |-> num_iters,
                 max_esjd |-> SeqMax(expected_squared_jump_distances),
                 max_acceptance_rate |-> acceptance_rates[idx],
                 max_scale_param |-> ScaleParamRange[idx],
                 expected_squared_jump_distances |->
                     expected_squared_jump_distances,
                 acceptance_rates |-> acceptance_rates,
                 scale_param_range |-> ScaleParamRange,
                 times |-> times]
    /\ st_pc' = "save"
    /\ UNCHANGED <<target_name, proposal_name, st_dim, num_iters, kw, actual_dim,
                   target_distribution, grid_i, acceptance_rates,
                   expected_squared_jump_distances, times, sims_constructed,
                   sim_steps, file_opened, plots_saved, st_error>>
    /\ UNCHANGED sim_dims
    /\ UNCHANGED <<simVars, toolVars>>

\* with open(filename, "w") as file: json.dump(data, file)
SaveResults ==
    /\ st_pc = "save"
    /\ file_opened' = TRUE
    /\ st_pc' = "traceplot"
    /\ UNCHANGED <<target_name, proposal_name, st_dim, num_iters, kw, actual_dim,
                   target_distribution, grid_i, acceptance_rates,
                   expected_squared_jump_distances, times, sims_constructed,
                   sim_steps, data, plots_saved, st_error>>
    /\ UNCHANGED sim_dims
    /\ UNCHANGED <<simVars, toolVars>>

\* One more simulation at the optimal scale, and its traceplot saved.
Traceplot ==
    /\ st_pc = "traceplot"
    /\ sims_constructed' = sims_constructed + 1
    /\ sim_dims' = sim_dims \cup {actual_dim}
    /\ sim_steps' = sim_steps + num_iters
    /\ plots_saved' = plots_saved + 1
    /\ st_pc' = IF actual_dim >= 2 THEN "density" ELSE "done"
    /\ UNCHANGED <<target_name, proposal_name, st_dim, num_iters, kw, actual_dim,
                   target_distribution, grid_i, acceptance_rates,
                   expected_squared_jump_distances, times, data, file_opened,
                   st_error>>
    /\ UNCHANGED <<simVars, toolVars>>

\* The 2-D density plot, for actual_dim >= 2.
Density2D ==
    /\ st_pc = "density"
    /\ plots_saved' = plots_saved + 1
    /\ st_pc' = "done"
    /\ UNCHANGED <<target_name, proposal_name, st_dim, num_iters, kw, actual_dim,
                   target_distribution, grid_i, acceptance_rates,
                   expected_squared_jump_distances, times, sims_constructed,
                   sim_steps, data, file_opened, st_error>>
    /\ UNCHANGED sim_dims
    /\ UNCHANGED <<simVars, toolVars>>

NextStudy ==
    \/ RunStudy
    \/ SweepConfig
    \/ SweepSimulate
    \/ SweepDone
    \/ SaveResults
    \/ Traceplot
    \/ Density2D

\* run_study alone; the generator's state plays no part in it.
InitStudy == Init /\ rng = 0

SpecStudy == InitStudy /\ [][NextStudy]_vars

\* the consumers draw nothing from the generator
SpecConsume == InitStudy /\ [][NextConsume]_vars

\* ------------------------------------------- SuperFunnel synthetic data
\* n_per_group values the construction is tried with
MaxGroup == 2
\* torch.manual_seed(42)
FunnelSeed == 42

\* the generator without line 104: it goes on from the state it is in
TorchNotSeeded(r) == r
\* the generator after torch.manual_seed(42), whatever state r it was in
TorchSeeded(r) == SeedState(FunnelSeed)

\* torch.randn: one entry of a design matrix, read off one draw
Randn(r) == (r % 3) - 1
\* torch.bernoulli(sigmoid(0.5 * row sum)), read off one draw
Bernoulli(rowsum, r) ==
    LET level == IF rowsum > 0 THEN 3 ELSE IF rowsum < 0 THEN 1 ELSE 2
    IN IF (r % 4) < level THEN 1 ELSE 0

\* draws one group consumes: X_j (n rows of K entries), then Y_j (n entries)
GroupDraws(K, n) == n * K + n

\* X_j of group j = 1..J, generated from the state r0 left by the seeding
FunnelX(r0, j, K, n) ==
    [row \in 1..n |->
        [col \in 1..K |->
            Randn(Advance(r0, (j - 1) * GroupDraws(K, n)
                                  + (row - 1) * K + (col - 1)))]]

FunnelY(r0, j, K, n) ==
    [row \in 1..n |->
        Bernoulli(SumSeq(FunnelX(r0, j, K, n)[row]),
                  Advance(r0, (j - 1) * GroupDraws(K, n) + n * K + (row - 1)))]

\* get_target_distribution("SuperFunnel", use_torch=True, J=, K=, n_per_group=)
ConstructSuperFunnel ==
    /\ Len(builds) < 2
    /\ \E J \in 1..MaxParam, K \in 1..MaxParam, n \in 1..MaxGroup :
        LET r0 == TorchSeeded(torch_rng) IN
            /\ builds' = Append(builds,
                   [J |-> J, K |-> K, n_per_group |-> n,
                    drawn_before |-> torch_rng,
                    X_data |-> [j \in 1..J |-> FunnelX(r0, j, K, n)],
                    Y_data |-> [j \in 1..J |-> FunnelY(r0, j, K, n)]])
            /\ torch_rng' = Advance(r0, J * GroupDraws(K, n))
    /\ UNCHANGED <<simVars, studyVars, gridVars, targetVars>>

\* A draw from torch's generator by any other code of the process.
TorchDraw ==
    /\ torch_rng' = NextRng(torch_rng)
    /\ UNCHANGED builds
    /\ UNCHANGED <<simVars, studyVars, gridVars, targetVars>>

NextFunnel ==
    \/ ConstructSuperFunnel
    \/ TorchDraw

\* np.random plays no part in it
SpecFunnel == InitStudy /\ [][NextFunnel]_vars

\* --------------------------------------------- 2-D density grid of run_study
\* np.linspace(..., 100) twice: the grid is GridSide x GridSide
GridSide == 2

\* What one evaluation of the target's density does: it raises, or returns a
\* value, finite or not (an overflowing exp, a nan of the arithmetic).
DensityOutcomes == {"raise", "nan", "inf", "1.0"}
FiniteValues == {"0.0", "1.0", "1e-10"}
Sentinel == "1e-10"

\* try: Z[i, j] = density value; except Exception: Z[i, j] = 1e-10
CellValue(outcome) == IF outcome = "raise" THEN Sentinel ELSE outcome

\* run_study reaches the grid with actual_dim >= 2: Z = np.zeros_like(X)
StartGrid ==
    /\ grid_pc = "idle"
    /\ grid_pc' = "cells"
    /\ cell_i' = 1 /\ cell_j' = 1
    /\ Z' = [a \in 1..GridSide |-> [b \in 1..GridSide |-> "0.0"]]
    /\ UNCHANGED <<simVars, studyVars, funnelVars, targetVars>>

\* One pass of the inner loop body.
EvaluateCell ==
    /\ grid_pc = "cells" /\ cell_i <= GridSide
    /\ \E outcome \in DensityOutcomes :
        Z' = [Z EXCEPT ![cell_i][cell_j] = CellValue(outcome)]
    /\ IF cell_j < GridSide
       THEN cell_j' = cell_j + 1 /\ cell_i' = cell_i
       ELSE cell_j' = 1 /\ cell_i' = cell_i + 1
    /\ UNCHANGED grid_pc
    /\ UNCHANGED <<simVars, studyVars, funnelVars, targetVars>>

\* Both loops are exhausted: plt.contourf(X, Y, Z, ...)
Contour ==
    /\ grid_pc = "cells" /\ cell_i > GridSide
    /\ grid_pc' = "contour"
    /\ UNCHANGED <<cell_i, cell_j, Z>>
    /\ UNCHANGED <<simVars, studyVars, funnelVars, targetVars>>

NextGrid ==
    \/ StartGrid
    \/ EvaluateCell
    \/ Contour

SpecGrid == InitStudy /\ [][NextGrid]_vars

\* ------------------------------------- get_target_distribution on its own
\* device=None (the default), or one given by the caller
Devices == {"None", "cpu", "cuda"}

\* One call get_target_distribution(name, dim, use_torch, device).
GetTargetDistribution ==
    /\ \E name \in TargetNames, d \in 1..MaxDim, ut \in BOOLEAN,
          dev \in Devices :
        /\ gt_args' = [name |-> name, dim |-> d, use_torch |-> ut,
                       device |-> dev]
        /\ gt_result' = get_target_distribution(name, ut)
    /\ UNCHANGED <<simVars, studyVars, funnelVars, gridVars>>

NextTarget == GetTargetDistribution

SpecTarget == InitStudy /\ [][NextTarget]_vars

\* ---------------------------------------------------------------- claims
StepsApplied(s) == Len(chain[s]) - 1
IsDiagnostic(op) == op \in {"acceptance_rate", "expected_squared_jump_distance"}

\* C1: on a simulation whose generate_samples() has returned and that has not
\* been reset since, a further generate_samples() call raises ValueError
\* before any step() and leaves the chain unchanged.
C1_SecondRunRejected ==
    [][\A s \in Inst :
          (returned[s] /\ GenerateSamples(s)) =>
              /\ ret'.kind = "ValueError"
              /\ pc'[s] = "idle"
              /\ chain'[s] = chain[s]]_vars

\* C2: acceptance_rate() and expected_squared_jump_distance() raise whenever
\* fewer than num_iterations steps have been applied since construction or the
\* last reset(), and return a value only once the run is Completed.
C2_DiagnosticsFailBeforeCompleted ==
    \A s \in Inst :
        (ret.inst = s /\ IsDiagnostic(ret.op)) =>
            /\ (StepsApplied(s) < num_iterations[s]) => ret.kind = "ValueError"
            /\ ret.kind = "value" => Completed(s)

\* C3: a generate_samples() that returns has called step() exactly
\* num_iterations times and returns a chain of num_iterations + 1 states; while
\* it runs the chain grows by exactly one state per step, its prefix untouched.
C3_RunLengthAndGrowth ==
    /\ [](\A s \in Inst :
            (ret.inst = s /\ ret.op = "generate_samples" /\ ret.kind = "value") =>
                /\ steps[s] = num_iterations[s]
                /\ Len(ret.val) = num_iterations[s] + 1)
    /\ [][\A s \in Inst :
            (pc[s] = "running" /\ chain'[s] # chain[s]) =>
                /\ Len(chain'[s]) = Len(chain[s]) + 1
                /\ SubSeq(chain'[s], 1, Len(chain[s])) = chain[s]
                /\ steps'[s] = steps[s] + 1]_vars

\* C4: from any state reset() returns the simulation to Initialized: has_run()
\* is false right after it, the diagnostics raise again, and the next
\* generate_samples() is accepted and performs num_iterations steps.
C4_ResetReinitialises ==
    /\ [][\A s \in Inst :
            Reset(s) => /\ ~has_run(chain'[s])
                        /\ ~returned'[s]
                        /\ pc'[s] = "idle"]_vars
    /\ [](\A s \in Inst :
            /\ (ret.inst = s /\ IsDiagnostic(ret.op) /\ StepsApplied(s) = 0)
                   => ret.kind = "ValueError"
            /\ (ret.inst = s /\ ret.op = "generate_samples" /\ StepsApplied(s) = 0)
                   => ret.kind \in {"entered", "value", "Exception"}
            /\ (ret.inst = s /\ ret.op = "generate_samples" /\ ret.kind = "value")
                   => steps[s] = num_iterations[s])

\* C5: for num_iterations > 0 the stored burn_in lies in [0, num_iterations - 1],
\* equals the constructor's argument when that is already in the range, and
\* never changes once stored.
C5_BurnInClamped ==
    /\ [](\A s \in Inst :
            (alive[s] /\ num_iterations[s] > 0) =>
                /\ burn_in[s] \in 0..(num_iterations[s] - 1)
                /\ (burn_in_arg[s] \in 0..(num_iterations[s] - 1)
                        => burn_in[s] = burn_in_arg[s]))
    /\ [][\A s \in Inst : alive[s] => burn_in'[s] = burn_in[s]]_vars

\* C5 witness: an out-of-range argument was clamped and survived a run and a reset.
C5_Witness ==
    /\ alive[1] /\ num_iterations[1] > 1
    /\ burn_in_arg[1] > num_iterations[1] - 1
    /\ burn_in[1] = num_iterations[1] - 1
    /\ runs[1] = 1 /\ ret.op = "reset"

\* Sum and number of the squared jumps between consecutive states k -> k + 1
\* (0-based indices) for k >= lo.
RECURSIVE JumpSumFrom(_, _)
JumpSumFrom(c, lo) ==
    IF lo >= Len(c) - 1 THEN 0
    ELSE SquaredDistance(c[lo + 2], c[lo + 1]) + JumpSumFrom(c, lo + 1)
JumpCountFrom(c, lo) == Max(0, Len(c) - 1 - lo)

SameFraction(a, b) == a.den > 0 /\ b.den > 0 /\ a.num * b.den = b.num * a.den

IsESJDValue(s) ==
    /\ ret.inst = s /\ ret.op = "expected_squared_jump_distance"
    /\ ret.kind = "value"

C9_RerunReproducesChain ==
    \A s \in Inst :
        (/\ Completed(s) /\ runs[s] = 2 /\ ~aborted[s]
         /\ SeedTruthy(seed[s])) =>
            chain[s] = first_chain[s]

SameConfiguration(s, t) ==
    /\ dim[s] = dim[t] /\ num_iterations[s] = num_iterations[t]
    /\ burn_in_arg[s] = burn_in_arg[t] /\ seed[s] = seed[t]

\* C8: for every integer seed, 0 included, two instances constructed with the
\* same arguments and each run right after its construction hold identical
\* chains, whatever was drawn from the generator before each construction.
C8_SameSeedSameChain ==
    (/\ Completed(1) /\ Completed(2) /\ runs[1] = 1 /\ runs[2] = 1
     /\ SameConfiguration(1, 2) /\ seed[1] # <<>>) =>
        chain[1] = chain[2]

\* The proposal families of the specification (section 3, ProposalConfig).
SupportedProposals == {"Normal", "Laplace", "UniformRadius"}

UnknownName ==
    \/ target_name \notin TorchTargets
    \/ proposal_name \notin SupportedProposals

\* C10: run_study given an unknown target or proposal name ends in an error
\* before any simulation step; no result file is opened and no plot is saved.
C10_UnknownNameNoOutput ==
    /\ []((st_pc # "idle" /\ UnknownName) =>
            /\ sim_steps = 0 /\ sims_constructed = 0
            /\ ~file_opened /\ plots_saved = 0 /\ data = <<>>
            /\ st_pc \in {"sweep", "raised"}
            /\ st_pc = "raised" => st_error # "none")
    /\ [][(st_pc = "sweep" /\ UnknownName) => st_pc' = "raised"]_vars

\* C10 witness: a known target with an unknown proposal was refused at the
\* head of the first sweep iteration.
C10_Witness ==
    /\ st_pc = "raised" /\ target_name \in TorchTargets
    /\ proposal_name \notin SupportedProposals
    /\ sim_steps = 0 /\ ~file_opened

\* C11: a construction with num_iterations <= 0 is rejected, so no simulation
\* exists on which generate_samples() returns after zero steps and may be
\* called again without reset().
C11_NonPositiveIterationsRejected ==
    \A s \in Inst :
        /\ alive[s] => num_iterations[s] > 0
        /\ ~(Completed(s) /\ steps[s] = 0 /\ ~has_run(chain[s]))

\* C12: every simulation run_study constructs gets the dimension derived
\* from the family parameters - 1 + n2*(n1 - 1) for HybridRosenbrock,
\* J + J*K + 1 + K + 1 + 1 for SuperFunnel - and never the dim argument of
\* the caller; for every other target it gets dim itself.
C12_FamilyDimension ==
    \A d \in sim_dims :
        /\ target_name = "HybridRosenbrock" => d = 1 + kw.n2 * (kw.n1 - 1)
        /\ target_name = "SuperFunnel" =>
               d = kw.J + kw.J * kw.K + 1 + kw.K + 1 + 1
        /\ target_name \notin {"HybridRosenbrock", "SuperFunnel"} => d = st_dim

\* HybridRosenbrock with the defaults n1 = 3, n2 = 5 and dim = 2: the sweep
\* and the traceplot simulation were all constructed with dimension 11.
C12_Witness ==
    /\ st_pc = "done"
    /\ target_name = "HybridRosenbrock"
    /\ kw.n1 = 3 /\ kw.n2 = 5 /\ st_dim = 2
    /\ sims_constructed = GridSize + 1
    /\ sim_dims = {11}

\* C13: two SuperFunnel constructions with the same J, K and n_per_group
\* have identical X_data and Y_data, however many draws were made from
\* torch's generator before each of them.
C13_SameFunnelData ==
    \A a, b \in 1..Len(builds) :
        (/\ builds[a].J = builds[b].J
         /\ builds[a].K = builds[b].K
         /\ builds[a].n_per_group = builds[b].n_per_group)
            => /\ builds[a].X_data = builds[b].X_data
               /\ builds[a].Y_data = builds[b].Y_data

\* Two constructions with equal parameters, the generator in different
\* states when they were called, and the same data.
C13_Witness ==
    /\ Len(builds) = 2
    /\ builds[1].J = builds[2].J /\ builds[1].K = builds[2].K
    /\ builds[1].n_per_group = builds[2].n_per_group
    /\ builds[1].drawn_before # builds[2].drawn_before
    /\ builds[1].X_data = builds[2].X_data
    /\ builds[1].Y_data = builds[2].Y_data

\* C14: in the result record max_esjd is the maximum of the ESJD series, and
\* max_acceptance_rate and max_scale_param are the acceptance rate and the
\* scale parameter of the first grid point whose ESJD is that maximum.
C14_MaximaOfSameGridPoint ==
    data # <<>> =>
        LET esjd == data.expected_squared_jump_distances IN
            /\ \A k \in 1..Len(esjd) : esjd[k] <= data.max_esjd
            /\ \E k \in 1..Len(esjd) :
                /\ esjd[k] = data.max_esjd
                /\ \A j \in 1..(k - 1) : esjd[j] < data.max_esjd
                /\ data.max_acceptance_rate = data.acceptance_rates[k]
                /\ data.max_scale_param = data.scale_param_range[k]

\* Two grid points attain the maximum with different acceptance rates, and
\* the record reports the first of them.
C14_Witness ==
    /\ data # <<>>
    /\ data.expected_squared_jump_distances[1] = data.max_esjd
    /\ data.expected_squared_jump_distances[GridSize] = data.max_esjd
    /\ data.acceptance_rates[1] # data.acceptance_rates[GridSize]
    /\ data.max_acceptance_rate = data.acceptance_rates[1]
    /\ data.max_scale_param = data.scale_param_range[1]

\* the chain of k further steps taken alone from chain c and generator state r
RECURSIVE RunAlone(_, _, _)
RunAlone(c, r, k) ==
    IF k <= 0 THEN c ELSE RunAlone(StepChain(c, r), StepRng(c, r), k - 1)

\* C15: the chain instance A returns from its first run is the chain it
\* produces when no other instance exists - for a seeded A, the run from the
\* state its own seed sets - whether or not an instance B was constructed or
\* run between A's construction and the end of A's run.
C15_ChainIndependentOfOtherInstance ==
    (/\ Completed(1) /\ runs[1] = 1
     /\ SeedTruthy(seed[1]))
        => first_chain[1] = RunAlone(<<InitialState(dim[1])>>,
                                     SeedState(seed[1][1]), num_iterations[1])

\* C16: acceptance_rate(), expected_squared_jump_distance(), traceplot(),
\* samples_histogram() and the rendering of run_study leave the chain of the
\* simulation as it was: same length, same states.
C16_ConsumersLeaveChain ==
    [][\A s \in Inst :
          (\/ AcceptanceRate(s)
           \/ ExpectedSquaredJumpDistance(s)
           \/ traceplot(s)
           \/ samples_histogram(s)
           \/ RenderChain(s)) => chain'[s] = chain[s]]_vars

\* A completed chain was rendered without its burn-in states and is still
\* the chain the run returned.
C16_Witness ==
    /\ ret.op = "render" /\ ret.inst = 1
    /\ Completed(1) /\ runs[1] = 1
    /\ burn_in[1] >= 1
    /\ Len(ret.val) = Len(chain[1]) - burn_in[1]
    /\ chain[1] = first_chain[1]
    /\ Len(chain[1]) = num_iterations[1] + 1

\* C17: when the grid has been evaluated every cell Z[i,j] holds a finite
\* value, the sentinel 1e-10 standing wherever the density raised or was
\* not finite.
C17_GridFinite ==
    grid_pc = "contour" =>
        \A a, b \in 1..GridSide : Z[a][b] \in FiniteValues

C19_SameNamesKnown ==
    (/\ gt_result # <<>>
     /\ ~gt_args.use_torch
     /\ get_target_distribution(gt_args.name, TRUE).ok)
        => \/ gt_result.ok
           \/ gt_result.val = TorchOnly
====
